---- MODULE Spec2Model ----
(***************************************************************************)
(* A model of quinn/src/notify.rs: NotifyOwned (a clonable handle on a     *)
(* Mutex<Shared>, Shared = { version: u64, wakers: Slab<Waker> }) and      *)
(* Waiter (a handle on the same Mutex plus an Option<State>,               *)
(* State = { version, index }).                                            *)
(*                                                                         *)
(* The mutex, its poisoning, the slab's free list and capacity, the        *)
(* wrapping version counter and the build's debug assertions are modelled. *)
(* notify_all is split at the points where it calls out of the module      *)
(* (one step per Waker::wake) so that the lock state during a callback is  *)
(* a state of the model; register and drop run their critical section in   *)
(* one step, as the mutex makes them atomic.                               *)
(***************************************************************************)
EXTENDS Integers, Sequences, FiniteSets, TLC

\* ---------------------------------------------------------------- bounds
\* Waiters ever created by wait().
NWaiters == 2
\* Width of the version counter (u64 in the source, scaled down).
VersionBits == 2
\* notify_all calls that take the lock, in Spec (fewer than 2^VersionBits:
\* 2^64 broadcasts are out of reach of a run of the program).
MaxBroadcasts == 2
\* notify_all calls that take the lock beyond a full turn of the counter,
\* in SpecWrap.
WrapExtra == 1

RECURSIVE Pow2(_)
Pow2(n) == IF n = 0 THEN 1 ELSE 2 * Pow2(n - 1)

VersionMod == Pow2(VersionBits)

\* The increment without the wrap: it leaves the counter's range.
unwrapped_add(v) == v + 1

\* u64::wrapping_add(1)
wrapping_add(v) == (v + 1) % VersionMod

Handles == {1, 2}
Waiters == 1..NWaiters
\* A waker whose wake() synchronously calls back into this primitive on the
\* same Mutex (register, notify_all, or the drop of a registered Waiter).
ReentrantCb == 0
\* Two wakers that return without touching this primitive, and ReentrantCb.
Callbacks == {ReentrantCb, 1, 2}
\* No waker: the value of a history variable that records none.
NoCb == -1
Reenters(cb) == cb = ReentrantCb

\* ------------------------------------------------------------ slab::Slab
\* entries[k+1] is slot k: Occupied(val) or Vacant(next free key).
Occupied(v) == [occ |-> TRUE, val |-> v]
Vacant(nxt) == [occ |-> FALSE, val |-> nxt]

\* Slab::new(): no entries, capacity 0.
SlabNew == [entries |-> <<>>, next |-> 0, len |-> 0, cap |-> 0]

\* Slab::with_capacity(n)
SlabWithCapacity(n) == [entries |-> <<>>, next |-> 0, len |-> 0, cap |-> n]

\* Vec's smallest non-zero capacity for an element of this size.
MinNonZeroCap == 4

Max(a, b) == IF a >= b THEN a ELSE b

\* Vec::push growth: amortized doubling, at least MinNonZeroCap.
GrowCap(cap, required) ==
    IF required <= cap THEN cap
    ELSE Max(MinNonZeroCap, Max(2 * cap, required))

\* Slab::contains(key)
SlabContains(s, key) ==
    /\ key >= 0
    /\ key < Len(s.entries)
    /\ s.entries[key + 1].occ

\* The key Slab::insert returns.
SlabVacantKey(s) == s.next

\* Slab::insert(val): at the head of the free list, or pushed at the end.
SlabInsert(s, v) ==
    LET key == s.next IN
    IF key = Len(s.entries)
    THEN [entries |-> Append(s.entries, Occupied(v)),
          next    |-> key + 1,
          len     |-> s.len + 1,
          cap     |-> GrowCap(s.cap, Len(s.entries) + 1)]
    ELSE [entries |-> [s.entries EXCEPT ![key + 1] = Occupied(v)],
          next    |-> s.entries[key + 1].val,
          len     |-> s.len + 1,
          cap     |-> s.cap]

\* The assignment done as another insert.
SlabSetInserts(s, key, v) == SlabInsert(s, v)

\* slab[key] = val on an occupied key (IndexMut panics on a vacant one).
SlabSet(s, key, v) == [s EXCEPT !.entries[key + 1] = Occupied(v)]

\* The removal that does not put the key on the free list.
SlabRemoveLeaks(s, key) ==
    [entries |-> [s.entries EXCEPT ![key + 1] = Vacant(s.next)],
     next    |-> s.next,
     len     |-> s.len - 1,
     cap     |-> s.cap]

\* Slab::remove(key) on an occupied key (it panics on a vacant one).
SlabRemove(s, key) ==
    [entries |-> [s.entries EXCEPT ![key + 1] = Vacant(s.next)],
     next    |-> key,
     len     |-> s.len - 1,
     cap     |-> s.cap]

RECURSIVE OccupiedVals(_)
\* The values Slab::drain yields: the occupied entries in key order.
OccupiedVals(es) ==
    IF es = <<>> THEN <<>>
    ELSE IF Head(es).occ
         THEN <<Head(es).val>> \o OccupiedVals(Tail(es))
         ELSE OccupiedVals(Tail(es))

\* The slab Slab::drain leaves: no entries, the capacity kept.
SlabDrained(s) == [entries |-> <<>>, next |-> 0, len |-> 0, cap |-> s.cap]

\* ----------------------------------------------------------------- state
\* Option<State>
None == [some |-> FALSE, version |-> 0, index |-> 0]
Some(v, i) == [some |-> TRUE, version |-> v, index |-> i]

VARIABLES
    version,      \* Shared.version
    wakers,       \* Shared.wakers
    locked,       \* 0, or the handle whose notify_all holds the MutexGuard
    poisoned,     \* the Mutex's poison flag
    pending,      \* the drained wakers notify_all has still to wake
    n,            \* notify_all's local n
    deadlocked,   \* the thread in notify_all is blocked on its own lock
    handles,      \* the NotifyOwned handles that exist
    waiter,       \* per Waiter: "absent", "live" or "dropped"
    state,        \* per Waiter: Waiter.state
    debug,        \* the build has debug assertions enabled
    \* history
    gen,          \* notify_all calls that took the lock (never wraps)
    regGen,       \* per Waiter: gen when its State was recorded
    lastcb,       \* per Waiter: the waker its undrained registration last gave
    woken,        \* wakers invoked by the notify_all in progress
    last          \* the last call that ended: [op, who, outcome, case]

vars == <<version, wakers, locked, poisoned, pending, n, deadlocked, handles,
          waiter, state, debug, gen, regGen, lastcb, woken, last>>

\* A call that ended: op by handle or waiter who, outcome "ok" or "panic";
\* case is what a Waiter call found: "none", "current" or "stale" (RegCase).
Ended(op, who, outcome, case) ==
    [op |-> op, who |-> who, outcome |-> outcome, case |-> case]

\* What Waiter w holds: no State, a State recorded since the latest
\* notify_all took the lock, or one recorded before it.
RegCase(w) ==
    IF ~state[w].some THEN "none"
    ELSE IF regGen[w] = gen THEN "current"
    ELSE "stale"

\* NotifyOwned::new(), with no Waiter yet.
Init ==
    /\ version = 0
    /\ wakers = SlabNew
    /\ locked = 0
    /\ poisoned = FALSE
    /\ pending = <<>>
    /\ n = 0
    /\ deadlocked = FALSE
    /\ handles = {1}
    /\ waiter = [w \in Waiters |-> "absent"]
    /\ state = [w \in Waiters |-> None]
    /\ debug \in BOOLEAN
    /\ gen = 0
    /\ regGen = [w \in Waiters |-> 0]
    /\ lastcb = [w \in Waiters |-> NoCb]
    /\ woken = <<>>
    /\ last = Ended("new", 1, "ok", "-")

\* ------------------------------------------------------------- operations
\* #[derive(Clone)] on NotifyOwned: another handle on the same Mutex.
clone(h, h2) ==
    /\ h \in handles
    /\ h2 \notin handles
    /\ \A k \in Handles \ handles : h2 <= k
    /\ handles' = handles \cup {h2}
    /\ last' = Ended("clone", h2, "ok", "-")
    /\ UNCHANGED <<version, wakers, locked, poisoned, pending, n, deadlocked,
                   waiter, state, debug, gen, regGen, lastcb, woken>>

\* The creation of a Waiter that takes a slot at once.
wait_registers(h, w) ==
    /\ h \in handles
    /\ waiter[w] = "absent"
    /\ \A k \in Waiters : waiter[k] = "absent" => w <= k
    /\ locked = 0
    /\ waiter' = [waiter EXCEPT ![w] = "live"]
    /\ state' = [state EXCEPT ![w] = Some(version, SlabVacantKey(wakers))]
    /\ wakers' = SlabInsert(wakers, ReentrantCb)
    /\ regGen' = [regGen EXCEPT ![w] = gen]
    /\ last' = Ended("wait", w, "ok", "-")
    /\ UNCHANGED <<version, locked, poisoned, pending, n, deadlocked,
                   handles, debug, gen, lastcb, woken>>

\* NotifyOwned::wait: a Waiter with state None; the Mutex is not locked.
wait(h, w) ==
    /\ h \in handles
    /\ waiter[w] = "absent"
    /\ \A k \in Waiters : waiter[k] = "absent" => w <= k
    /\ waiter' = [waiter EXCEPT ![w] = "live"]
    /\ state' = [state EXCEPT ![w] = None]
    /\ last' = Ended("wait", w, "ok", "-")
    /\ UNCHANGED <<version, wakers, locked, poisoned, pending, n, deadlocked,
                   handles, debug, gen, regGen, lastcb, woken>>

\* Waiter::register panics after taking the lock: the debug assertion fails,
\* or the Some arm indexes a vacant key.
RegisterPanicsLocked(w) ==
    /\ state[w].some
    /\ \/ debug /\ version # state[w].version
       \/ ~SlabContains(wakers, state[w].index)

\* Waiter::register
register(w, cb) ==
    /\ waiter[w] = "live"
    /\ locked = 0
    /\ IF poisoned
       THEN \* lock().unwrap() panics on the PoisonError
            /\ last' = Ended("register", w, "panic", RegCase(w))
            /\ UNCHANGED <<wakers, poisoned, state, regGen, lastcb>>
       ELSE IF ~state[w].some
       THEN /\ state' = [state EXCEPT ![w] = Some(version, SlabVacantKey(wakers))]
            /\ wakers' = SlabInsert(wakers, cb)
            /\ regGen' = [regGen EXCEPT ![w] = gen]
            /\ lastcb' = [lastcb EXCEPT ![w] = cb]
            /\ last' = Ended("register", w, "ok", RegCase(w))
            /\ UNCHANGED poisoned
       ELSE IF RegisterPanicsLocked(w)
       THEN \* the guard is dropped while unwinding
            /\ poisoned' = TRUE
            /\ last' = Ended("register", w, "panic", RegCase(w))
            /\ UNCHANGED <<wakers, state, regGen, lastcb>>
       ELSE /\ wakers' = SlabSet(wakers, state[w].index, cb)
            /\ lastcb' = [lastcb EXCEPT ![w] = cb]
            /\ last' = Ended("register", w, "ok", RegCase(w))
            /\ UNCHANGED <<poisoned, state, regGen>>
    /\ UNCHANGED <<version, locked, pending, n, deadlocked, handles, waiter,
                   debug, gen, woken>>

\* The removal with the version test inverted.
DropRemovesInverted(w) ==
    /\ state[w].some
    /\ ~poisoned
    /\ version # state[w].version

\* The removal on a poisoned lock too (the guard taken out of the error).
DropRemovesPoisoned(w) ==
    /\ state[w].some
    /\ version = state[w].version

\* The removal without the version test.
DropRemovesUnversioned(w) ==
    /\ state[w].some
    /\ ~poisoned

\* Drop for Waiter takes the lock and finds version equal to its own.
DropRemoves(w) ==
    /\ state[w].some
    /\ ~poisoned
    /\ version = state[w].version

\* Drop for Waiter
drop(w) ==
    /\ waiter[w] = "live"
    /\ state[w].some => locked = 0
    /\ waiter' = [waiter EXCEPT ![w] = "dropped"]
    /\ state' = [state EXCEPT ![w] = None]
    /\ regGen' = [regGen EXCEPT ![w] = 0]
    /\ lastcb' = [lastcb EXCEPT ![w] = NoCb]
    /\ IF ~DropRemoves(w)
       THEN /\ last' = Ended("drop", w, "ok", RegCase(w))
            /\ UNCHANGED <<wakers, poisoned>>
       ELSE IF SlabContains(wakers, state[w].index)
       THEN /\ wakers' = SlabRemove(wakers, state[w].index)
            /\ last' = Ended("drop", w, "ok", RegCase(w))
            /\ UNCHANGED poisoned
       ELSE \* Slab::remove panics on a vacant key, under the guard
            /\ poisoned' = TRUE
            /\ last' = Ended("drop", w, "panic", RegCase(w))
            /\ UNCHANGED wakers
    /\ UNCHANGED <<version, locked, pending, n, deadlocked, handles, debug,
                   gen, woken>>

\* NotifyOwned::notify_all, lines 28-31: lock, bump the version, take n and
\* drain the slab.  max bounds the calls that take the lock.
notify_all_lock(h, max) ==
    /\ h \in handles
    /\ locked = 0
    /\ IF poisoned
       THEN /\ last' = Ended("notify_all", h, "panic", "-")
            /\ UNCHANGED <<version, wakers, locked, pending, n, gen, woken,
                           lastcb>>
       ELSE /\ gen < max
            /\ version' = wrapping_add(version)
            /\ n' = wakers.len
            /\ pending' = OccupiedVals(wakers.entries)
            /\ wakers' = SlabDrained(wakers)
            /\ locked' = h
            /\ gen' = gen + 1
            /\ woken' = <<>>
            /\ lastcb' = [w \in Waiters |-> NoCb]
            /\ UNCHANGED last
    /\ UNCHANGED <<poisoned, deadlocked, handles, waiter, state, debug,
                   regGen>>

\* NotifyOwned::notify_all, line 32: wake one drained waker whose wake()
\* returns without touching this primitive.
notify_all_wake(h) ==
    /\ locked = h
    /\ ~deadlocked
    /\ pending # <<>>
    /\ ~Reenters(Head(pending))
    /\ woken' = Append(woken, Head(pending))
    /\ pending' = Tail(pending)
    /\ UNCHANGED <<version, wakers, locked, poisoned, n, deadlocked, handles,
                   waiter, state, debug, gen, regGen, lastcb, last>>

\* NotifyOwned::notify_all, line 32: wake a waker whose wake() locks this
\* Mutex again on the thread that holds it.  std leaves that lock() free to
\* block for ever or to panic; it never returns.
notify_all_wake_reenter(h, blocks) ==
    /\ locked = h
    /\ ~deadlocked
    /\ pending # <<>>
    /\ Reenters(Head(pending))
    /\ IF blocks
       THEN /\ deadlocked' = TRUE
            /\ woken' = Append(woken, Head(pending))
            /\ pending' = Tail(pending)
            /\ UNCHANGED <<locked, poisoned, n, last>>
       ELSE \* unwinding drops the Drain and then the guard
            /\ pending' = <<>>
            /\ woken' = <<>>
            /\ n' = 0
            /\ locked' = 0
            /\ poisoned' = TRUE
            /\ last' = Ended("notify_all", h, "panic", "-")
            /\ UNCHANGED deadlocked
    /\ UNCHANGED <<version, wakers, handles, waiter, state, debug, gen,
                   regGen, lastcb>>

\* The shrink with the comparison made inclusive.
ShrunkInclusive(s, k) == IF k * 4 <= s.cap THEN SlabWithCapacity(k) ELSE s

\* NotifyOwned::notify_all, lines 35-37: a slab of capacity k in place of a
\* drained one more than four times as large.
Shrunk(s, k) == IF k * 4 < s.cap THEN SlabWithCapacity(k) ELSE s

\* NotifyOwned::notify_all, lines 34-38: shrink the slab and drop the guard.
notify_all_unlock(h) ==
    /\ locked = h
    /\ ~deadlocked
    /\ pending = <<>>
    /\ wakers' = Shrunk(wakers, n)
    /\ locked' = 0
    /\ n' = 0
    /\ woken' = <<>>
    /\ last' = Ended("notify_all", h, "ok", "-")
    /\ UNCHANGED <<version, poisoned, pending, deadlocked, handles, waiter,
                   state, debug, gen, regGen, lastcb>>

\* Every step but the one that starts a notify_all.
Others ==
    \/ \E h \in Handles, h2 \in Handles : clone(h, h2)
    \/ \E h \in Handles, w \in Waiters : wait(h, w)
    \/ \E w \in Waiters, cb \in Callbacks : register(w, cb)
    \/ \E w \in Waiters : drop(w)
    \/ \E h \in Handles : notify_all_wake(h)
    \/ \E h \in Handles, blocks \in BOOLEAN : notify_all_wake_reenter(h, blocks)
    \/ \E h \in Handles : notify_all_unlock(h)

Next ==
    \/ Others
    \/ \E h \in Handles : notify_all_lock(h, MaxBroadcasts)

Spec == Init /\ [][Next]_vars

\* The version counter goes round: more broadcasts than it has values.
NextWrap ==
    \/ Others
    \/ \E h \in Handles : notify_all_lock(h, VersionMod + WrapExtra)

SpecWrap == Init /\ [][NextWrap]_vars

\* Capacities a burst of registrations leaves: Vec's for 5 to 8 and for 9 to
\* 16 entries.
BurstCaps == {8, 16}

\* The state after a burst of waiters registered, one notify_all drained
\* them (more than a quarter of the capacity, so it was kept) and they were
\* dropped: the slab is empty and large.
InitCap ==
    /\ version = wrapping_add(0)
    /\ wakers \in {SlabWithCapacity(c) : c \in BurstCaps}
    /\ locked = 0
    /\ poisoned = FALSE
    /\ pending = <<>>
    /\ n = 0
    /\ deadlocked = FALSE
    /\ handles = {1}
    /\ waiter = [w \in Waiters |-> "absent"]
    /\ state = [w \in Waiters |-> None]
    /\ debug \in BOOLEAN
    /\ gen = 1
    /\ regGen = [w \in Waiters |-> 0]
    /\ lastcb = [w \in Waiters |-> NoCb]
    /\ woken = <<>>
    /\ last = Ended("notify_all", 1, "ok", "-")

NextCap ==
    \/ Others
    \/ \E h \in Handles : notify_all_lock(h, MaxBroadcasts + 1)

SpecCap == InitCap /\ [][NextCap]_vars

\* The thread inside notify_all keeps running: each of its remaining steps is
\* taken if it stays possible.
Running ==
    /\ WF_vars(\E h \in Handles : notify_all_wake(h))
    /\ WF_vars(\E h \in Handles, blocks \in BOOLEAN :
                    notify_all_wake_reenter(h, blocks))
    /\ WF_vars(\E h \in Handles : notify_all_unlock(h))

SpecFair == Init /\ [][Next]_vars /\ Running

TypeOK ==
    /\ version \in 0..(VersionMod - 1)
    /\ locked \in Handles \cup {0}
    /\ poisoned \in BOOLEAN
    /\ deadlocked \in BOOLEAN
    /\ handles \subseteq Handles
    /\ \A w \in Waiters : waiter[w] \in {"absent", "live", "dropped"}
    /\ wakers.len = Len(OccupiedVals(wakers.entries))
    /\ Len(wakers.entries) <= wakers.cap

\* ----------------------------------------------------------------- claims
\* The live waiters registered at the current version.
LiveCurrent ==
    {w \in Waiters :
        waiter[w] = "live" /\ state[w].some /\ state[w].version = version}

RECURSIVE Rank(_, _)
\* The number of occupied keys among 0..key: where Slab::drain yields key.
Rank(es, key) ==
    IF key < 0 THEN 0
    ELSE (IF key < Len(es) /\ es[key + 1].occ THEN 1 ELSE 0) + Rank(es, key - 1)

\* A step in which notify_all takes the lock (lines 28-31).
Broadcasts == locked = 0 /\ locked' # 0

\* A step in which notify_all returns (line 38).
BroadcastReturns == locked # 0 /\ locked' = 0 /\ last'.outcome = "ok"

\* The drain yields, for each live waiter registered at the current version,
\* the waker that waiter last gave, and nothing else.
DrainsLiveWaiters ==
    /\ Len(pending') = Cardinality(LiveCurrent)
    /\ \A w \in LiveCurrent :
        /\ SlabContains(wakers, state[w].index)
        /\ pending'[Rank(wakers.entries, state[w].index)] = lastcb[w]
    /\ \A w1, w2 \in LiveCurrent :
        w1 # w2 => state[w1].index # state[w2].index

\* C1: a broadcast with k live waiters (registered at the current version,
\* not dropped) drains exactly those k waiters' wakers, invokes each once and
\* nothing else before it returns, and leaves no occupied slot until a
\* register call inserts one.
C1_BroadcastWakesLiveWaiters ==
    [][/\ Broadcasts => DrainsLiveWaiters /\ wakers'.len = 0
       /\ (locked # 0 /\ locked' = locked) =>
            woken' \o pending' = woken \o pending
       /\ BroadcastReturns =>
            pending = <<>> /\ Len(woken) = n /\ wakers'.len = 0
       /\ (wakers.len = 0 /\ wakers'.len # 0) =>
            \E w \in Waiters, cb \in Callbacks : register(w, cb)
      ]_vars

\* The waiters whose register call returned and whose registration no
\* notify_all has drained and no drop has ended.
Registered ==
    {w \in Waiters : waiter[w] = "live" /\ lastcb[w] # NoCb}

\* C2: whatever the interleaving of the waiters' and the handles' calls, a
\* broadcast wakes every registration that exists when it takes the lock,
\* each by the waker it gave, once; a broadcast that no register call
\* precedes since the last one drains nothing.
C2_EveryRegistrationWokenOnce ==
    [][Broadcasts =>
        /\ Len(pending') = Cardinality(Registered)
        /\ \A w \in Registered :
            /\ SlabContains(wakers, state[w].index)
            /\ pending'[Rank(wakers.entries, state[w].index)] = lastcb[w]
        /\ (Registered = {}) => pending' = <<>>
      ]_vars

\* C3: register on a waiter whose recorded version differs from the shared
\* version inserts the waker into a fresh slot and records the new slot id
\* with the current version.
C3_StaleRegisterInsertsFreshSlot ==
    [][\A w \in Waiters, cb \in Callbacks :
        (/\ register(w, cb)
         /\ ~poisoned
         /\ state[w].some
         /\ state[w].version # version)
        => /\ state'[w] = Some(version, SlabVacantKey(wakers))
           /\ wakers' = SlabInsert(wakers, cb)
           /\ last'.outcome = "ok"
      ]_vars

\* Waiter::register reaches line 67 and indexes wakers with its index.
RegisterIndexes(w) ==
    /\ ~poisoned
    /\ state[w].some
    /\ ~(debug /\ version # state[w].version)

\* Every live waiter with a State indexes an occupied slot exactly when its
\* version is the shared version.
SlotLiveIffCurrent ==
    \A w \in Waiters :
        (waiter[w] = "live" /\ state[w].some) =>
            (SlabContains(wakers, state[w].index)
                <=> state[w].version = version)

\* C4: a live waiter's index is that of an occupied slot iff its version is
\* the shared version, and no operation indexes the slab with an index whose
\* version is stale.
C4_SlotValidIffVersionCurrent ==
    [][/\ SlotLiveIffCurrent'
       /\ \A w \in Waiters, cb \in Callbacks :
            (register(w, cb) /\ RegisterIndexes(w))
                => state[w].version = version
       /\ \A w \in Waiters :
            (drop(w) /\ DropRemoves(w)) => state[w].version = version
      ]_vars

\* A step in which a drained waker is invoked (line 32).
CallbackInvoked == Len(woken') > Len(woken)

\* C5: every drained waker is invoked after the lock has been released;
\* none is invoked while the broadcasting thread holds the lock.
C5_CallbacksInvokedUnlocked ==
    [][CallbackInvoked => locked = 0]_vars

\* notify_all is about to invoke a waker that re-enters the primitive.
ReentrantWakeDue ==
    /\ locked # 0
    /\ pending # <<>>
    /\ Reenters(Head(pending))

\* The notify_all in progress has returned.
BroadcastReturned ==
    /\ locked = 0
    /\ last.op = "notify_all"
    /\ last.outcome = "ok"

\* C6: a broadcast whose waker re-enters the primitive on the same shared
\* state does not deadlock: the re-entrant call and the broadcast complete.
C6_ReentrantCallbackCompletes ==
    ReentrantWakeDue ~> BroadcastReturned

\* Every slot but key holds in t what it holds in s.
OtherSlotsKept(s, t, key) ==
    /\ Len(t.entries) = Len(s.entries)
    /\ \A k \in 0..(Len(s.entries) - 1) :
        k # key => t.entries[k + 1] = s.entries[k + 1]

\* C7: register on a waiter that is registered with no broadcast since keeps
\* the waiter's slot id and the number of slots, and leaves the slot holding
\* the new waker and every other slot as it was; a broadcast that follows
\* the call drains one waker per live registered waiter, this waiter's being
\* the one it gave last.
C7_ReregisterOverwritesInPlace ==
    [][/\ \A w \in Waiters, cb \in Callbacks :
            (register(w, cb) /\ ~poisoned /\ RegCase(w) = "current")
            => /\ state'[w] = state[w]
               /\ wakers'.len = wakers.len
               /\ SlabContains(wakers', state[w].index)
               /\ wakers'.entries[state[w].index + 1].val = cb
               /\ OtherSlotsKept(wakers, wakers', state[w].index)
               /\ last'.outcome = "ok"
       /\ \A w \in Waiters :
            (/\ Broadcasts
             /\ last.op = "register" /\ last.who = w /\ last.outcome = "ok"
             /\ last.case \in {"none", "current"})
            => /\ Len(pending') = Cardinality(LiveCurrent)
               /\ pending'[Rank(wakers.entries, state[w].index)] = lastcb[w]
      ]_vars

\* A waiter has registered a second time with no broadcast in between, and
\* its slot, one of two occupied ones, holds the waker it gave.
C7_Witness ==
    \E w \in Waiters :
        /\ last = Ended("register", w, "ok", "current")
        /\ lastcb[w] = 2
        /\ wakers.len = 2
        /\ wakers.entries[state[w].index + 1] = Occupied(2)

\* C8: register on a live waiter with the lock not poisoned returns: it does
\* not panic, whether the waiter is unregistered, registered at the current
\* version or registered at a version broadcasts have superseded.
C8_RegisterNeverFails ==
    [][\A w \in Waiters, cb \in Callbacks :
        (register(w, cb) /\ ~poisoned)
            => last'.outcome = "ok" /\ ~poisoned'
      ]_vars

\* C9: the version starts at 0; a step in which notify_all takes the lock
\* changes it to (version + 1) mod 2^VersionBits; no other step changes it.
C9_VersionAdvancesOncePerBroadcast ==
    /\ version = 0
    /\ [][IF Broadcasts
          THEN /\ version' = (version + 1) % Pow2(VersionBits)
               /\ version' # version
          ELSE version' = version
         ]_vars

\* The counter has gone all the way round.
C9_Witness ==
    /\ gen = Pow2(VersionBits)
    /\ version = 0

\* C10: dropping a waiter whose State was recorded before a broadcast does
\* not panic and leaves the slab and the version as they were.
C10_StaleDropIsNoop ==
    [][\A w \in Waiters :
        (drop(w) /\ RegCase(w) = "stale")
            => /\ UNCHANGED <<version, wakers, poisoned>>
               /\ last'.outcome = "ok"
      ]_vars

\* A waiter registered before a broadcast has been dropped while another
\* waiter's slot, inserted after that broadcast, is occupied.
C10_Witness ==
    /\ last.op = "drop"
    /\ last.case = "stale"
    /\ last.outcome = "ok"
    /\ ~poisoned
    /\ wakers.len = 1

\* Every occupied slot but key holds in t what it holds in s, and no other
\* slot is occupied in t.
OtherOccupiedKept(s, t, key) ==
    /\ Len(t.entries) = Len(s.entries)
    /\ \A k \in 0..(Len(s.entries) - 1) :
        k # key =>
            /\ t.entries[k + 1].occ = s.entries[k + 1].occ
            /\ s.entries[k + 1].occ => t.entries[k + 1] = s.entries[k + 1]

\* C11: dropping a waiter registered with no broadcast since its last
\* register, the lock not poisoned, removes that waiter's slot: one occupied
\* slot fewer, every other occupied slot and its waker as before.
C11_CurrentDropRemovesOwnSlot ==
    [][\A w \in Waiters :
        (drop(w) /\ RegCase(w) = "current" /\ ~poisoned)
            => /\ wakers'.len = wakers.len - 1
               /\ SlabContains(wakers, state[w].index)
               /\ ~SlabContains(wakers', state[w].index)
               /\ OtherOccupiedKept(wakers, wakers', state[w].index)
               /\ version' = version
               /\ last'.outcome = "ok"
      ]_vars

\* A registered waiter has been dropped with no broadcast since its register;
\* the other waiter's slot is still occupied.
C11_Witness ==
    /\ last.op = "drop"
    /\ last.case = "current"
    /\ last.outcome = "ok"
    /\ ~poisoned
    /\ wakers.len = 1
    /\ Len(wakers.entries) = 2

\* C12: every occupied slot is the slot of a waiter that is still live: no
\* entry stays behind for a dropped waiter.
C12_NoSlotOfDroppedWaiter ==
    \A k \in 0..(Len(wakers.entries) - 1) :
        wakers.entries[k + 1].occ =>
            \E w \in Waiters :
                /\ waiter[w] = "live"
                /\ RegCase(w) = "current"
                /\ state[w].index = k

\* C13: with the lock poisoned, notify_all and register panic, and the drop
\* of a waiter returns normally; none of them changes the slab, the version
\* or any waiter's State.
C13_PoisonedLock ==
    [][poisoned =>
        /\ \A w \in Waiters, cb \in Callbacks :
            register(w, cb)
                => /\ last' = Ended("register", w, "panic", RegCase(w))
                   /\ UNCHANGED <<version, wakers, state, poisoned>>
        /\ \A h \in Handles :
            notify_all_lock(h, MaxBroadcasts)
                => /\ last' = Ended("notify_all", h, "panic", "-")
                   /\ UNCHANGED <<version, wakers, state, poisoned, locked,
                                  pending>>
        /\ \A w \in Waiters :
            drop(w)
                => /\ last' = Ended("drop", w, "ok", RegCase(w))
                   /\ UNCHANGED <<version, wakers, poisoned>>
      ]_vars

\* A waiter registered at the current version has been dropped under a
\* poisoned lock, and its slot is still occupied.
C13_Witness ==
    /\ poisoned
    /\ last.op = "drop"
    /\ last.case = "current"
    /\ last.outcome = "ok"
    /\ wakers.len = 1

\* The live waiters that hold a State.
HoldState == {w \in Waiters : waiter[w] = "live" /\ state[w].some}

\* C14: with no broadcast so far, the slab gets a new key, and a larger
\* capacity, only in a step that registers one waiter more than it has keys:
\* its extent is the largest number of waiters registered at once, however
\* many waiters have been created and dropped.
C14_ExtentFollowsPeak ==
    [][gen = 0 =>
        /\ Len(wakers'.entries) > Len(wakers.entries)
            => /\ Cardinality(HoldState) = Len(wakers.entries)
               /\ Len(wakers'.entries) = Len(wakers.entries) + 1
        /\ wakers'.cap # wakers.cap
            => Len(wakers'.entries) > Len(wakers.entries)
        /\ Len(wakers'.entries) <= wakers'.cap
      ]_vars

\* Two waiters have been created, the first is dropped and the second has
\* just registered, and the slab has one key.
C14_Witness ==
    /\ gen = 0
    /\ waiter[1] = "dropped"
    /\ last = Ended("register", 2, "ok", "none")
    /\ Len(wakers.entries) = 1
    /\ state[2].index = 0

\* C15: register called again on the same waiter with the same waker, right
\* after a register that returned, changes neither the version, nor the
\* slab, nor the waiter's State, and returns.
C15_RegisterIdempotent ==
    [][\A w \in Waiters, cb \in Callbacks :
        (/\ last.op = "register" /\ last.who = w /\ last.outcome = "ok"
         /\ lastcb[w] = cb
         /\ register(w, cb))
        => /\ UNCHANGED <<version, wakers, state, poisoned>>
           /\ last'.outcome = "ok"
      ]_vars

\* A registered waiter has registered again, its waker 1 in the one slot.
C15_Witness ==
    \E w \in Waiters :
        /\ last = Ended("register", w, "ok", "current")
        /\ lastcb[w] = 1
        /\ wakers.entries = <<Occupied(1)>>
        /\ state[w] = Some(version, 0)

\* C16: when notify_all returns having drained and woken k wakers from a
\* slab of capacity c, the slab is empty, of capacity k if k * 4 < c and of
\* capacity c otherwise.
C16_ShrinkBelowQuarter ==
    [][BroadcastReturns =>
        /\ n = Len(woken)
        /\ wakers'.entries = <<>>
        /\ wakers'.len = 0
        /\ wakers'.cap =
            IF Len(woken) * 4 < wakers.cap THEN Len(woken) ELSE wakers.cap
      ]_vars

\* A notify_all that drained at least one waker has returned, and the slab
\* has that small non-zero capacity.
C16_Witness ==
    /\ last.op = "notify_all"
    /\ last.outcome = "ok"
    /\ locked = 0
    /\ wakers.entries = <<>>
    /\ wakers.cap \in 1..2

\* C17: wait creates a live waiter with no State and leaves the version, the
\* slab and the lock as they were; the drop of a waiter that never
\* registered leaves them as they were too, whoever holds the lock.
C17_WaitAndUnregisteredDropKeepShared ==
    [][/\ \A w \in Waiters :
            (waiter[w] = "absent" /\ waiter'[w] = "live")
                => /\ ~state'[w].some
                   /\ UNCHANGED <<version, wakers, locked, poisoned>>
       /\ \A w \in Waiters :
            (drop(w) /\ ~state[w].some)
                => /\ UNCHANGED <<version, wakers, locked, poisoned>>
                   /\ last'.outcome = "ok"
      ]_vars

\* A waiter that never registered has been dropped while a notify_all holds
\* the lock.
C17_Witness ==
    /\ last.op = "drop"
    /\ last.case = "none"
    /\ last.outcome = "ok"
    /\ locked # 0
    /\ pending # <<>>

\* No occupied slot is the slot of two live waiters registered at the
\* current version.
SlotsExclusive ==
    \A w1, w2 \in LiveCurrent :
        (w1 # w2 /\ SlabContains(wakers, state[w1].index))
            => state[w1].index # state[w2].index

\* C18: no occupied slot is referenced by two live waiters registered at the
\* current version, and a register call by one waiter leaves the slot of
\* every other live waiter registered at the current version holding the
\* waker that waiter stored, also when the key was reused after a broadcast.
C18_SlotExclusivity ==
    [][/\ SlotsExclusive'
       /\ \A w \in Waiters, cb \in Callbacks :
            register(w, cb) =>
                \A w2 \in LiveCurrent \ {w} :
                    SlabContains(wakers, state[w2].index) =>
                        wakers'.entries[state[w2].index + 1]
                            = wakers.entries[state[w2].index + 1]
      ]_vars

\* C19: with the version a VersionBits-bit counter, a waiter whose
\* registration a broadcast drained is never taken for current again: its
\* drop removes nothing and does not panic, however many broadcasts
\* followed, a full turn of the counter included.
C19_StaleDetectedAcrossWrap ==
    [][\A w \in Waiters :
        (drop(w) /\ RegCase(w) = "stale" /\ ~poisoned)
            => /\ ~DropRemoves(w)
               /\ UNCHANGED <<wakers, poisoned>>
               /\ last'.outcome = "ok"
      ]_vars

\* The broadcasts since Waiter w recorded its State.
BroadcastsSince(w) == gen - regGen[w]

\* C19, amended: the drop of a waiter whose registration was drained leaves
\* the slab alone and returns, unless the broadcasts since its registration
\* are a multiple of 2^VersionBits; then the versions are equal again and
\* Drop removes the slot at the old index (another waiter's) or panics on a
\* vacant one.
C19_StaleDetectedUnlessFullTurn ==
    [][\A w \in Waiters :
        (drop(w) /\ RegCase(w) = "stale" /\ ~poisoned)
            => IF BroadcastsSince(w) % Pow2(VersionBits) # 0
               THEN /\ UNCHANGED <<wakers, poisoned>>
                    /\ last'.outcome = "ok"
               ELSE \/ /\ SlabContains(wakers, state[w].index)
                       /\ ~SlabContains(wakers', state[w].index)
                       /\ last'.outcome = "ok"
                    \/ /\ ~SlabContains(wakers, state[w].index)
                       /\ poisoned'
                       /\ last'.outcome = "panic"
      ]_vars

\* After more broadcasts than the counter has values, a waiter whose
\* registration was drained has been dropped, and the other waiter's slot is
\* still occupied.
C19_Witness ==
    /\ gen > Pow2(VersionBits)
    /\ last.op = "drop"
    /\ last.case = "stale"
    /\ last.outcome = "ok"
    /\ ~poisoned
    /\ wakers.len = 1

====
